---- MODULE Spec2Model ----
(***************************************************************************)
(* Model of the schema-conformance repair of the Brands service:           *)
(* BrandsService.validateAndUpdate and BrandsService.updateToConformSchema *)
(* (brands.service.ts), with the Joi validation they rest on               *)
(* (shared/utlis/validate.ts, brandsSchema).                               *)
(*                                                                         *)
(* A stored document is an ordered list of (key, value) entries, because   *)
(* the code depends on JavaScript's property order (Object.keys(...).find).*)
(* A JavaScript value is a record [t, n, s]: its type tag, its number and  *)
(* its text.  A numeric string is kept apart from a number ("numstr" vs    *)
(* "number"), so that a conversion is visible in the model.                *)
(***************************************************************************)
EXTENDS Integers, Sequences, FiniteSets, TLC

\* ---------------------------------------------------------------- bounds
\* The most defects (wrong value, missing field, extra field) of the record
\* a repair is applied to.
MaxDefects == 2
\* The most documents in the stored collection.
MaxBatch == 2
\* The most defects of the whole stored collection.
MaxStoreDefects == 1
\* The most validate-and-update requests served.
MaxPasses == 1

\* ----------------------------------------------------- program constants
MinYear == 1600
CurrentYear == 2024
DefaultYear == 1600
MinLocations == 1
DefaultLocations == 1

\* ------------------------------------------------------ JavaScript values
Undef == [t |-> "undefined", n |-> 0, s |-> ""]
NaNV == [t |-> "NaN", n |-> 0, s |-> ""]
Num(n) == [t |-> "number", n |-> n, s |-> ""]
\* the string holding the decimal digits of n
NumStr(n) == [t |-> "numstr", n |-> n, s |-> ""]
\* a non-numeric string; n = 1 when it carries surrounding white space
Str(s) == [t |-> "string", n |-> 0, s |-> s]
PaddedStr(s) == [t |-> "string", n |-> 1, s |-> s]
\* a nested object with a name attribute
Obj(name) == [t |-> "object", n |-> 1, s |-> name]
Oid(i) == [t |-> "objectid", n |-> i, s |-> ""]
DateV(n) == [t |-> "date", n |-> n, s |-> ""]

\* isNaN(v): Number(v) is NaN.  Number("") is 0, Number(" x ") is NaN.
isNaN(v) ==
    \/ v.t \in {"undefined", "NaN", "object", "objectid"}
    \/ v.t = "string" /\ v.s # ""

\* ToBoolean(v)
truthy(v) ==
    CASE v.t \in {"undefined", "NaN"} -> FALSE
      [] v.t = "number" -> v.n # 0
      [] v.t = "string" -> ~(v.s = "" /\ v.n = 0)
      [] OTHER -> TRUE

\* parseInt(v): digits parse to their number, anything else to NaN.
parseInt(v) == IF v.t \in {"number", "numstr"} THEN Num(v.n) ELSE NaNV

\* v?.name
nameOf(v) == IF v.t = "object" /\ v.n = 1 THEN Str(v.s) ELSE Undef

\* ------------------------------------------------------------ field names
SchemaKeys ==
    << "_id", "brandName", "headquarters", "yearFounded",
       "numberOfLocations", "createdAt", "updatedAt", "__v" >>

CanonicalSet == { SchemaKeys[i] : i \in 1..Len(SchemaKeys) }

\* The key a lookup that found nothing yields: brand[undefined].
NoKey == "undefined"

\* key.toLowerCase().includes(anchor), tabulated for the field names of the
\* model: each name with the anchors its lower-case form contains.
LowerIncludes ==
    [ _id |-> {},
      brandName |-> {"brandname", "brand"},
      headquarters |-> {},
      yearFounded |-> {"year"},
      numberOfLocations |-> {"locations"},
      createdAt |-> {},
      updatedAt |-> {},
      __v |-> {},
      notes |-> {},
      yearCreated |-> {"year"},
      locationsCount |-> {"locations"},
      hqAddress |-> {"hqaddress"},
      brand |-> {"brand"},
      oldBrandName |-> {"brandname", "brand"},
      undefined |-> {} ]

includes(key, anchor) == anchor \in LowerIncludes[key]

\* ------------------------------------------------- objects (ordered maps)
\* The sequence f as an enumerated tuple: [i \in 1..n |-> e] alone is kept
\* as a rule and evaluated again at every f[i].
Array(f) == f \o << >>

hasKey(obj, key) == \E i \in 1..Len(obj) : obj[i].k = key

\* obj[key]: undefined when the key is absent
getField(obj, key) ==
    IF hasKey(obj, key)
    THEN (CHOOSE e \in { obj[i] : i \in 1..Len(obj) } : e.k = key).v
    ELSE Undef

\* obj[key] = val: in place when the key exists, else appended
setField(obj, key, val) ==
    IF hasKey(obj, key)
    THEN Array([ i \in 1..Len(obj) |->
                   IF obj[i].k = key THEN [k |-> key, v |-> val] ELSE obj[i] ])
    ELSE Append(obj, [k |-> key, v |-> val])

isNot(e, key) == e.k # key

\* delete obj[key]
deleteField(obj, key) == SelectSeq(obj, LAMBDA e : isNot(e, key))

\* array.find(pred) over the keys containing "brand": the first, or none
findBrandKey(obj) ==
    IF \E i \in 1..Len(obj) : includes(obj[i].k, "brand")
    THEN obj[CHOOSE i \in 1..Len(obj) :
               /\ includes(obj[i].k, "brand")
               /\ \A j \in 1..(i - 1) : ~includes(obj[j].k, "brand")].k
    ELSE NoKey

\* ------------------------------------------------------------ Joi schema
Ok(v) == [value |-> v, error |-> "none", ctx |-> v]
Err(v, type, ctx) == [value |-> v, error |-> type, ctx |-> ctx]

\* Joi.object()
validateObject(item) ==
    IF item.t = "undefined" \/ item.t \in {"object", "objectid"}
    THEN Ok(item)
    ELSE Err(item, "object.base", item)

\* Joi.string().required().trim(): convert trims, the empty string is refused
validateRequiredString(item) ==
    CASE item.t = "undefined" -> Err(Undef, "any.required", Undef)
      [] item.t = "numstr" -> Ok(item)
      [] item.t = "string" ->
           IF item.s = "" THEN Err(Str(""), "string.empty", Str(""))
           ELSE Ok(Str(item.s))
      [] OTHER -> Err(item, "string.base", item)

\* Joi.number().required().min(lo).max(hi).default(dflt); hi < lo: no max.
\* A missing value is reported and the result takes the default; a numeric
\* string is converted before the limits are tested.
validateRequiredNumber(item, lo, hi, dflt) ==
    CASE item.t = "undefined" -> Err(Num(dflt), "any.required", Undef)
      [] item.t \in {"number", "numstr"} ->
           IF item.n < lo THEN Err(Num(item.n), "number.min", Num(item.n))
           ELSE IF hi >= lo /\ item.n > hi
                THEN Err(Num(item.n), "number.max", Num(item.n))
                ELSE Ok(Num(item.n))
      [] OTHER -> Err(item, "number.base", item)

\* Joi.number()
validateNumber(item) ==
    CASE item.t = "undefined" -> Ok(item)
      [] item.t \in {"number", "numstr"} -> Ok(Num(item.n))
      [] OTHER -> Err(item, "number.base", item)

\* Joi.date(): a number or numeric string is taken as a timestamp
validateDate(item) ==
    CASE item.t \in {"undefined", "date"} -> Ok(item)
      [] item.t \in {"number", "numstr"} -> Ok(DateV(item.n))
      [] OTHER -> Err(item, "date.base", item)

\* brandsSchema, key by key
brandsSchema(key, item) ==
    CASE key = "_id" -> validateObject(item)
      [] key \in {"brandName", "headquarters"} -> validateRequiredString(item)
      [] key = "yearFounded" ->
           validateRequiredNumber(item, MinYear, CurrentYear, DefaultYear)
      [] key = "numberOfLocations" ->
           validateRequiredNumber(item, MinLocations, MinLocations - 1,
                                  DefaultLocations)
      [] key \in {"createdAt", "updatedAt"} -> validateDate(item)
      [] OTHER -> validateNumber(item)

\* The keys of the schema, in the schema's order, from the i-th on: every
\* key is validated (abortEarly: false), the converted or default value is
\* written to the result, the error is collected.
RECURSIVE validateKeys(_, _, _)
validateKeys(i, value, errors) ==
    IF i > Len(SchemaKeys) THEN [value |-> value, errors |-> errors]
    ELSE LET key == SchemaKeys[i]
             r == brandsSchema(key, getField(value, key))
             value2 == IF r.value # Undef
                       THEN setField(value, key, r.value)
                       ELSE value
             errors2 == IF r.error = "none" THEN errors
                        ELSE Append(errors,
                               [key |-> key, value |-> r.ctx, type |-> r.error])
         IN validateKeys(i + 1, value2, errors2)

isUnknown(e) == e.k \notin CanonicalSet

\* The keys the schema does not name, in the object's own order.
unknownErrors(data) ==
    LET extra == SelectSeq(data, LAMBDA e : isUnknown(e))
    IN Array([ i \in 1..Len(extra) |->
                 [ key |-> extra[i].k, value |-> extra[i].v,
                   type |-> "object.unknown" ] ])

\* validate(data, brandsSchema): Schema.validate(data, {abortEarly: false,
\* convert: true}).  The result's value is a copy: data is left as it is.
validate(data) ==
    LET r == validateKeys(1, data, << >>)
    IN [value |-> r.value, errors |-> r.errors \o unknownErrors(data)]

\* ------------------------------------------- updateToConformSchema: repair
\* The branch the field name of an error selects, in the order of the ifs.
classify(key) ==
    CASE includes(key, "year") -> "Year"
      [] includes(key, "locations") -> "Locations"
      [] includes(key, "hqaddress") -> "Headquarters"
      [] includes(key, "brandname") -> "BrandName"
      [] OTHER -> "Unknown"

\* errors related to the "yearFounded" field
handleYear(brand, context) ==
    LET assigned == IF ~isNaN(context.value) /\ truthy(context.value)
                    THEN setField(brand, "yearFounded", parseInt(context.value))
                    ELSE brand
    IN deleteField(assigned, context.key)

\* errors related to the "numberOfLocations" field
handleLocations(brand, context) ==
    LET assigned == IF ~isNaN(context.value) /\ truthy(context.value)
                    THEN setField(brand, "numberOfLocations",
                                  parseInt(context.value))
                    ELSE brand
    IN deleteField(assigned, context.key)

\* errors related to the "headquarters" field
handleHeadquarters(brand, context) ==
    LET assigned == IF isNaN(context.value) /\ truthy(context.value)
                    THEN setField(brand, "headquarters", context.value)
                    ELSE brand
    IN deleteField(assigned, context.key)

\* errors related to the "brandname" field: the key is looked up in the
\* validated value, and it is that key, not the error's, that is deleted
handleBrandName(brand, validatedValue, context) ==
    LET brandKey == findBrandKey(validatedValue)
        assigned == setField(brand, "brandName",
                             nameOf(getField(validatedValue, brandKey)))
    IN deleteField(assigned, brandKey)

\* handleUnknown without its delete
handleUnknownKeepsField(brand, context) == brand

\* any other erroneous field
handleUnknown(brand, context) == deleteField(brand, context.key)

\* The body of validatedBrand.error.details.forEach
handleError(brand, validatedValue, context) ==
    CASE classify(context.key) = "Year" -> handleYear(brand, context)
      [] classify(context.key) = "Locations" -> handleLocations(brand, context)
      [] classify(context.key) = "Headquarters" ->
           handleHeadquarters(brand, context)
      [] classify(context.key) = "BrandName" ->
           handleBrandName(brand, validatedValue, context)
      [] OTHER -> handleUnknown(brand, context)

\* validatedBrand.error.details.forEach(...), in the validator's order
RECURSIVE forEachError(_, _, _)
forEachError(brand, validatedValue, details) ==
    IF details = << >> THEN brand
    ELSE forEachError(handleError(brand, validatedValue, Head(details)),
                      validatedValue, Tail(details))

\* if (validatedBrand.error) { ...; return brand }: a record without errors
\* falls off the end of the callback, which yields undefined
returnsBrandAlways(details) == TRUE

returnsBrand(details) == details # << >>

\* The callback of brands.map: the record as mutated, and whether it is what
\* the callback returns
conformBrand(brand) ==
    LET validatedBrand == validate(brand)
    IN [ brand |-> forEachError(brand, validatedBrand.value,
                                validatedBrand.errors),
         returned |-> returnsBrand(validatedBrand.errors) ]

\* brands.map(...).filter(Boolean): the returned records in the batch's order,
\* each with the position it had in the batch (src, kept for the properties)
RECURSIVE updateToConformSchema(_, _)
updateToConformSchema(brands, i) ==
    IF i > Len(brands) THEN << >>
    ELSE LET r == conformBrand(brands[i])
         IN (IF r.returned THEN << [brand |-> r.brand, src |-> i] >> ELSE << >>)
            \o updateToConformSchema(brands, i + 1)

\* The batch after the pass over it: map mutates the fetched objects in place
mutatedBrands(brands) ==
    Array([ i \in 1..Len(brands) |-> conformBrand(brands[i]).brand ])

\* ------------------------------------------- validateAndUpdate: the write
\* updatedBrands.map(brand => validate(brand, brandsSchema).value): the
\* value is taken whether or not the validation reported errors
revalidate(updatedBrands) ==
    Array([ i \in 1..Len(updatedBrands) |->
              [ brand |-> validate(updatedBrands[i].brand).value,
                src |-> updatedBrands[i].src,
                errors |-> validate(updatedBrands[i].brand).errors ] ])

\* const { _id, ...updates } = brand; replaceOne: {filter: {_id}, replacement}
prepareBulkOps(updatedBrands) ==
    Array([ i \in 1..Len(updatedBrands) |->
              [ filter |-> getField(updatedBrands[i].brand, "_id"),
                replacement |-> deleteField(updatedBrands[i].brand, "_id"),
                src |-> updatedBrands[i].src,
                errors |-> updatedBrands[i].errors ] ])

isDefined(e) == e.v # Undef

\* The document a replaceOne leaves: the matched _id, then the replacement's
\* defined fields
replaced(doc, replacement) ==
    << [k |-> "_id", v |-> getField(doc, "_id")] >>
    \o SelectSeq(replacement, LAMBDA e : isDefined(e))

\* replaceOne on the collection: the first document the filter matches; a
\* filter on an undefined _id matches none
replaceOne(docs, op) ==
    IF op.filter # Undef
       /\ \E i \in 1..Len(docs) : getField(docs[i], "_id") = op.filter
    THEN LET at == CHOOSE i \in 1..Len(docs) :
                     /\ getField(docs[i], "_id") = op.filter
                     /\ \A j \in 1..(i - 1) : getField(docs[j], "_id") # op.filter
         IN [ docs EXCEPT ![at] = replaced(docs[at], op.replacement) ]
    ELSE docs

\* brandModel.bulkWrite(bulkOps): the operations in order; modifiedCount
\* counts the documents an operation changed
RECURSIVE bulkWrite(_, _, _)
bulkWrite(docs, bulkOps, modifiedCount) ==
    IF bulkOps = << >> THEN [docs |-> docs, modifiedCount |-> modifiedCount]
    ELSE LET after == replaceOne(docs, Head(bulkOps))
         IN bulkWrite(after, Tail(bulkOps),
                      IF after # docs THEN modifiedCount + 1 ELSE modifiedCount)

\* ------------------------------------------------------------- responses
NoResponse == [kind |-> "none", count |-> 0]
\* {statusCode: OK, message: "All brand data is already correct. No updates needed."}
NoUpdatesNeeded == [kind |-> "NoUpdatesNeeded", count |-> 0]
\* {statusCode: OK, message: `${modifiedCount} brands updated successfully.`}
UpdatedSuccessfully(modifiedCount) ==
    [kind |-> "UpdatedSuccessfully", count |-> modifiedCount]
InternalServerErrorException == [kind |-> "InternalServerErrorException", count |-> 0]

\* catch (error) of the fetch: throw new InternalServerErrorException()
onFetchError == InternalServerErrorException
\* a catch that swallows the failure of the bulk write
onWriteErrorSwallowed == UpdatedSuccessfully(0)

\* catch (error) of the bulk write, rethrown by the outer catch
onWriteError == InternalServerErrorException

\* ------------------------------------------------- the stored documents
\* A stored document is the document Mongoose writes for a Brand, with some
\* defects: a field of the schema set to another value or missing (v is
\* undefined), or a field the schema does not name, before or after the
\* fields of the schema.
Edit(k, v, at) == [k |-> k, v |-> v, at |-> at]

FieldEdits ==
    { Edit("_id", Num(0), "set") }
    \cup { Edit("brandName", v, "set") : v \in {Undef, Num(7), Obj("Nested")} }
    \cup { Edit("yearFounded", v, "set") :
             v \in {Undef, NumStr(1950), NumStr(1500), Num(1500), Str("abc")} }
    \cup { Edit("headquarters", v, "set") : v \in {Undef, Num(7), PaddedStr("NYC")} }
    \cup { Edit("numberOfLocations", v, "set") : v \in {Undef, NumStr(5), Num(0)} }

ExtraKeys ==
    << "notes", "yearCreated", "locationsCount", "hqAddress", "brand",
       "oldBrandName" >>

ExtraFields ==
    { <<"notes", Str("x")>>,
      <<"yearCreated", NumStr(1950)>>, <<"yearCreated", Num(1500)>>,
      <<"yearCreated", Str("abc")>>,
      <<"locationsCount", NumStr(9)>>,
      <<"hqAddress", Str("HQ")>>, <<"hqAddress", NumStr(5)>>,
      <<"brand", Obj("Nested")>>,
      <<"oldBrandName", Obj("Nested")>>, <<"oldBrandName", Str("foo")>> }

ExtraEdits == { Edit(f[1], f[2], at) : f \in ExtraFields, at \in {"front", "back"} }

Edits == FieldEdits \cup ExtraEdits

editedKeys(edits) == { e.k : e \in edits }

\* The sets of at most d edits, no two of the same field
RECURSIVE EditSets(_)
EditSets(d) ==
    IF d = 0 THEN { {} }
    ELSE LET fewer == EditSets(d - 1)
         IN fewer \cup UNION { { S \cup {e} :
                                   e \in { x \in Edits : x.k \notin editedKeys(S) } } :
                                 S \in fewer }

\* The document Mongoose writes for the i-th created brand
wellFormed(i) ==
    << [k |-> "_id", v |-> Oid(i)],
       [k |-> "brandName", v |-> Str("Acme")],
       [k |-> "yearFounded", v |-> Num(1950)],
       [k |-> "headquarters", v |-> Str("NYC")],
       [k |-> "numberOfLocations", v |-> Num(5)],
       [k |-> "createdAt", v |-> DateV(1)],
       [k |-> "updatedAt", v |-> DateV(1)],
       [k |-> "__v", v |-> Num(0)] >>

editOf(edits, key) == CHOOSE e \in edits : e.k = key

extrasAt(edits, at) ==
    LET on(key) == key \in editedKeys(edits) /\ editOf(edits, key).at = at
        picked == SelectSeq(ExtraKeys, LAMBDA key : on(key))
    IN Array([ j \in 1..Len(picked) |->
                 [k |-> picked[j], v |-> editOf(edits, picked[j]).v] ])

\* The i-th stored document with the edits applied; a numeric _id is i
document(edits, i) ==
    LET base == wellFormed(i)
        edited == Array([ j \in 1..Len(base) |->
                            IF base[j].k \in editedKeys(edits)
                            THEN [k |-> base[j].k,
                                  v |-> IF base[j].k = "_id" THEN Num(i)
                                        ELSE editOf(edits, base[j].k).v]
                            ELSE base[j] ])
    IN extrasAt(edits, "front")
       \o SelectSeq(edited, LAMBDA e : isDefined(e))
       \o extrasAt(edits, "back")

\* The collections of n documents with at most d defects in all
RECURSIVE Collections(_, _)
Collections(n, d) ==
    IF n = 0 THEN { << >> }
    ELSE UNION { { Append(docs, document(S, n)) :
                     docs \in Collections(n - 1, d - u),
                     S \in { T \in EditSets(u) : Cardinality(T) = u } } :
                 u \in 0..d }

\* ---------------------------------------------------------------- state
VARIABLES
    store,          \* the Brands collection
    pc,             \* where the request being served stands
    passes,         \* validate-and-update requests started
    brands,         \* validateAndUpdate: the fetched documents (mutated in place)
    fetched,        \* the documents as they were fetched (kept for the properties)
    updatedBrands,  \* validateAndUpdate: updatedBrands
    bulkOps,        \* validateAndUpdate: bulkOps
    response,       \* what the request returned or threw
    writes,         \* bulkWrite calls of the request being served
    failed,         \* the collaborator call that failed: "none", "find", "bulkWrite"
    rep             \* one record under repair, error by error

vars ==
    << store, pc, passes, brands, fetched, updatedBrands, bulkOps, response,
       writes, failed, rep >>

passVars == << store, pc, passes, brands, fetched, updatedBrands, bulkOps,
               response, writes, failed >>

NoError == [key |-> NoKey, value |-> Undef, type |-> "none"]

\* The repair of one record: brand is the object the callback mutates, input
\* what it was when the callback started, value and details the validation's
\* result, todo the errors not yet handled, prev and last the record before
\* the error handled last and that error, returned what the callback returned
\* ("brand" or "undefined"); round 2 is the repair of the record round 1
\* returned, first that record.
Repair(brand) ==
    [ pc |-> "validate", round |-> 1, brand |-> brand, input |-> brand,
      value |-> << >>, details |-> << >>, todo |-> << >>, prev |-> brand,
      last |-> NoError, returned |-> "none", first |-> << >> ]

NoRepair == [ Repair(<< >>) EXCEPT !.pc = "off" ]

\* ------------------------------------------------ validateAndUpdate, steps
\* await this.brandModel.find().lean().exec()
Find ==
    /\ pc \in {"idle", "done"}
    /\ passes < MaxPasses
    /\ passes' = passes + 1
    /\ brands' = store
    /\ fetched' = store
    /\ updatedBrands' = << >>
    /\ bulkOps' = << >>
    /\ response' = NoResponse
    /\ writes' = 0
    /\ failed' = "none"
    /\ pc' = "fetched"
    /\ UNCHANGED << store, rep >>

\* the fetch rejects: the outer catch
FindFail ==
    /\ pc \in {"idle", "done"}
    /\ passes < MaxPasses
    /\ passes' = passes + 1
    /\ brands' = << >>
    /\ fetched' = << >>
    /\ updatedBrands' = << >>
    /\ bulkOps' = << >>
    /\ response' = onFetchError
    /\ writes' = 0
    /\ failed' = "find"
    /\ pc' = "done"
    /\ UNCHANGED << store, rep >>

\* let updatedBrands = this.updateToConformSchema(brands), and the return
\* when no record was returned
Conform ==
    /\ pc = "fetched"
    /\ LET updated == updateToConformSchema(brands, 1)
       IN /\ updatedBrands' = Array([ i \in 1..Len(updated) |->
                                        [ brand |-> updated[i].brand,
                                          src |-> updated[i].src,
                                          errors |-> << >> ] ])
          /\ IF Len(updated) = 0
             THEN response' = NoUpdatesNeeded /\ pc' = "done"
             ELSE response' = response /\ pc' = "conformed"
    /\ brands' = mutatedBrands(brands)
    /\ UNCHANGED << store, passes, fetched, bulkOps, writes, failed, rep >>

\* the second validation and the bulk operations
PrepareBulk ==
    /\ pc = "conformed"
    /\ updatedBrands' = revalidate(updatedBrands)
    /\ bulkOps' = prepareBulkOps(revalidate(updatedBrands))
    /\ pc' = "writing"
    /\ UNCHANGED << store, passes, brands, fetched, response, writes, failed, rep >>

\* await this.brandModel.bulkWrite(bulkOps) resolves
BulkWrite ==
    /\ pc = "writing"
    /\ LET result == bulkWrite(store, bulkOps, 0)
       IN /\ store' = result.docs
          /\ response' = UpdatedSuccessfully(result.modifiedCount)
    /\ writes' = writes + 1
    /\ pc' = "done"
    /\ UNCHANGED << passes, brands, fetched, updatedBrands, bulkOps, failed, rep >>

\* await this.brandModel.bulkWrite(bulkOps) rejects, the operations before
\* the failing one applied: the inner catch throws, the outer catch throws
\* again
BulkWriteFail ==
    /\ pc = "writing"
    /\ \E applied \in 0..(Len(bulkOps) - 1) :
         store' = bulkWrite(store, SubSeq(bulkOps, 1, applied), 0).docs
    /\ response' = onWriteError
    /\ writes' = writes + 1
    /\ failed' = "bulkWrite"
    /\ pc' = "done"
    /\ UNCHANGED << passes, brands, fetched, updatedBrands, bulkOps, rep >>

Init ==
    /\ store \in UNION { Collections(n, MaxStoreDefects) : n \in 0..MaxBatch }
    /\ pc = "idle"
    /\ passes = 0
    /\ brands = << >>
    /\ fetched = << >>
    /\ updatedBrands = << >>
    /\ bulkOps = << >>
    /\ response = NoResponse
    /\ writes = 0
    /\ failed = "none"
    /\ rep = NoRepair

Next ==
    \/ Find
    \/ FindFail
    \/ Conform
    \/ PrepareBulk
    \/ BulkWrite
    \/ BulkWriteFail

Spec == Init /\ [][Next]_vars

\* ------------------------------------- the repair of one record, by error
\* let validatedBrand = validate(brand, brandsSchema)
RepairValidate ==
    /\ rep.pc = "validate"
    /\ LET validatedBrand == validate(rep.brand)
       IN rep' = [ rep EXCEPT !.pc = "errors",
                              !.value = validatedBrand.value,
                              !.details = validatedBrand.errors,
                              !.todo = validatedBrand.errors ]
    /\ UNCHANGED passVars

\* one turn of validatedBrand.error.details.forEach
RepairError ==
    /\ rep.pc = "errors"
    /\ rep.todo # << >>
    /\ rep' = [ rep EXCEPT !.brand = handleError(rep.brand, rep.value, Head(rep.todo)),
                           !.prev = rep.brand,
                           !.last = Head(rep.todo),
                           !.todo = Tail(rep.todo) ]
    /\ UNCHANGED passVars

\* the callback returns: the record when there were errors, else undefined
RepairReturn ==
    /\ rep.pc = "errors"
    /\ rep.todo = << >>
    /\ rep' = [ rep EXCEPT !.pc = "returned",
                           !.returned = IF returnsBrand(rep.details)
                                        THEN "brand" ELSE "undefined" ]
    /\ UNCHANGED passVars

\* the repair applied to the record the first repair returned
RepairAgain ==
    /\ rep.pc = "returned"
    /\ rep.round = 1
    /\ rep.returned = "brand"
    /\ rep' = [ Repair(rep.brand) EXCEPT !.round = 2, !.first = rep.brand ]
    /\ UNCHANGED passVars

InitRepair ==
    /\ rep \in { Repair(document(S, 1)) : S \in EditSets(MaxDefects) }
    /\ store = << >>
    /\ pc = "idle"
    /\ passes = 0
    /\ brands = << >>
    /\ fetched = << >>
    /\ updatedBrands = << >>
    /\ bulkOps = << >>
    /\ response = NoResponse
    /\ writes = 0
    /\ failed = "none"

NextRepair ==
    \/ RepairValidate
    \/ RepairError
    \/ RepairReturn
    \/ RepairAgain

SpecRepair == InitRepair /\ [][NextRepair]_vars

\* ------------------------------------------------------------ properties
FieldNames == (DOMAIN LowerIncludes) \ {NoKey}

valid(data) == validate(data).errors = << >>

validAll(docs) == \A i \in 1..Len(docs) : valid(docs[i])

entriesOf(obj) == { obj[i] : i \in 1..Len(obj) }

\* The fields that hold a value (a field assigned undefined holds none)
definedFields(obj) == { e \in entriesOf(obj) : e.v # Undef }

Handled(class) == rep.last.type # "none" /\ classify(rep.last.key) = class

\* C1: the record the repair returns validates against the canonical
\* schema, has no field outside the canonical set, and holds yearFounded and
\* numberOfLocations as numbers.
C1_RepairedRecordConforms ==
    (rep.pc = "returned" /\ rep.round = 1 /\ rep.returned = "brand") =>
        /\ valid(rep.brand)
        /\ \A e \in entriesOf(rep.brand) : e.k \in CanonicalSet
        /\ \A e \in entriesOf(rep.brand) :
             e.k \in {"yearFounded", "numberOfLocations"} => e.v.t = "number"

\* A value the repair may put in a canonical field of the record: one the
\* fetched record held, as it was, parsed, or as the name of a nested object.
salvaged(v, doc) ==
    \E e \in entriesOf(doc) : v \in {e.v, parseInt(e.v), nameOf(e.v)} /\ v # NaNV

\* C2: every replacement of the bulk write is a record that validated on the
\* second validation, and every canonical field the repair left in it holds
\* a value salvaged from the fetched record.
C2_OnlyRevalidatedRecordsWritten ==
    \A i \in 1..Len(bulkOps) :
        /\ bulkOps[i].errors = << >>
        /\ \A e \in entriesOf(brands[bulkOps[i].src]) :
             e.k \in CanonicalSet => salvaged(e.v, fetched[bulkOps[i].src])

\* C3, as claimed: the repair of a record that already validates returns
\* that record, every field name and value unchanged.
C3_ValidRecordReturnedUnchanged ==
    (rep.pc = "returned" /\ valid(rep.input)) =>
        (rep.returned = "brand" /\ rep.brand = rep.input)

\* C3, amended: the repair of a record that already validates leaves every
\* field name and value of the record unchanged and returns no record for it
\* (undefined, which the filter removes from the output).
C3_ValidRecordUnchangedNotReturned ==
    (rep.pc = "returned" /\ valid(rep.input)) =>
        (rep.returned = "undefined" /\ rep.brand = rep.input)

C3_Witness ==
    /\ rep.pc = "returned"
    /\ rep.round = 1
    /\ valid(rep.input)
    /\ getField(rep.input, "yearFounded").t = "numstr"

\* C4: a pass over a fetched batch without a malformed record issues no bulk
\* write, leaves the store as fetched and ends with "All brand data is
\* already correct. No updates needed."
C4_NoMalformedNoWrite ==
    (pc # "idle" /\ failed # "find" /\ validAll(fetched)) =>
        /\ pc \in {"fetched", "done"}
        /\ writes = 0
        /\ bulkOps = << >>
        /\ store = fetched
        /\ pc = "done" => response = NoUpdatesNeeded

C4_Witness ==
    /\ pc = "done"
    /\ failed = "none"
    /\ Len(fetched) = MaxBatch
    /\ validAll(fetched)
    /\ response = NoUpdatesNeeded

\* The year a record stores as a numeric string, under yearFounded or under
\* a key containing "year"
numericStringYears(doc) ==
    { e \in entriesOf(doc) : includes(e.k, "year") /\ e.v.t = "numstr" }

\* C5: a record whose year is stored as a numeric string is handed to the
\* bulk write with yearFounded the integer parsed from it and without an
\* alias key; a batch of one such record is reported as 1 changed record.
C5_NumericStringYearRepaired ==
    (pc = "done" /\ failed = "none") =>
        /\ \A i \in 1..Len(fetched) :
             numericStringYears(fetched[i]) # {} =>
               \E j \in 1..Len(bulkOps) :
                 /\ bulkOps[j].src = i
                 /\ \E e \in numericStringYears(fetched[i]) :
                      getField(bulkOps[j].replacement, "yearFounded") = Num(e.v.n)
                 /\ \A e \in entriesOf(bulkOps[j].replacement) :
                      includes(e.k, "year") => e.k = "yearFounded"
        /\ (Len(fetched) = 1 /\ numericStringYears(fetched[1]) # {}) =>
             response = UpdatedSuccessfully(1)

onlyUnknownExtras(details) ==
    \A i \in 1..Len(details) :
        classify(details[i].key) = "Unknown" /\ details[i].key \notin CanonicalSet

C7_RepairIdempotent ==
    (rep.round = 2 /\ rep.pc = "returned") =>
        definedFields(rep.brand) = definedFields(rep.first)

\* C8: the filter _id of every replace operation is the _id the record it was
\* derived from had when it was fetched.
C8_ReplaceMatchedByOriginalId ==
    \A i \in 1..Len(bulkOps) :
        /\ hasKey(fetched[bulkOps[i].src], "_id")
        /\ bulkOps[i].filter = getField(fetched[bulkOps[i].src], "_id")

\* C9: a pass that met a fetch or bulk write failure ends in
\* InternalServerErrorException, never in a success response; a pass whose
\* fetch failed writes nothing; a pass makes at most one bulk write attempt;
\* a pass without such a failure, whatever the stored data, ends in success.
C9_OnlyFetchOrWriteFailureIsAnError ==
    /\ (pc = "done" /\ failed # "none") => response = InternalServerErrorException
    /\ (pc = "done" /\ failed = "none") =>
         response.kind \in {"NoUpdatesNeeded", "UpdatedSuccessfully"}
    /\ failed = "find" => (writes = 0 /\ bulkOps = << >>)
    /\ writes <= 1
    /\ pc # "done" => response = NoResponse

C9_Witness ==
    /\ pc = "done"
    /\ failed = "bulkWrite"
    /\ writes = 1
    /\ ~validAll(fetched)

\* C10: after a BrandName error is handled for a record whose field found by
\* the "brand" lookup holds a nested object with a name, brandName is that
\* name and the offending key of the error is absent.
C10_NestedBrandNamePromoted ==
    (Handled("BrandName")
     /\ nameOf(getField(rep.value, findBrandKey(rep.value))) # Undef) =>
        /\ getField(rep.brand, "brandName")
             = nameOf(getField(rep.value, findBrandKey(rep.value)))
        /\ ~hasKey(rep.brand, rep.last.key)

====
